---- MODULE Spec2Model ----
(***************************************************************************)
(* Check orchestration and live-update subsystem of the flight price       *)
(* checker: app.py (_state, _broadcast, _do_check, _scheduler_loop,        *)
(* api_status, api_check, stream) and flight_checker.py (run_check and the *)
(* result store it writes).                                                *)
(*                                                                         *)
(* Threads: the scheduler thread "sched" (started only when not IS_VERCEL) *)
(* and the request threads of the threaded Flask server.  A region the     *)
(* code runs under `with _state_lock` and that only touches memory is one  *)
(* atomic action guarded by the lock being free; the one region that does  *)
(* file I/O under the lock (api_check, already running) holds the lock     *)
(* across two actions.  LockSpec follows _broadcast statement by           *)
(* statement instead, to check that the lock is what makes it atomic.      *)
(*                                                                         *)
(* Specifications: Spec and NominalSpec (orchestration, with and without   *)
(* a raising result store), FairSpec (Spec under a fair thread scheduler), *)
(* StatusSpec (NominalSpec with /api/status polled, on an existing history *)
(* file), HubSpec (the event hub and its /stream clients) and LockSpec.    *)
(***************************************************************************)
EXTENDS Integers, Sequences, FiniteSets, TLC

\* ------------------------------------------------------------ constants
PRICE_LIMIT == 8000
CHECK_EVERY_HOURS == 6
QueueMax == 20
TopOffers == 5
StatusHistory == 50

\* ------------------------------------------------------------ bounds
\* check triggers (/check requests plus due scheduler jobs) during a run
MaxTriggers == 2
\* the clock stops advancing here (hours since process start)
MaxTime == 12
\* hours added by one step of the clock
TickHours == 6
\* _broadcast calls made by the event-hub driver (HubSpec)
MaxBroadcasts == 24
\* _broadcast calls followed statement by statement (LockSpec)
MaxCalls == 8
\* entries in the history file an earlier process left behind (StatusSpec)
StoredEntries == 49

Sched == "sched"
Requests == {"r1", "r2"}
Threads == {Sched} \cup Requests
NoThread == "none"

\* queue objects created by stream()
Subs == {"s1", "s2"}

\* threads inside _broadcast at the same time
Callers == {"b1", "b2"}

VARIABLES
    IS_VERCEL,      \* app.py:20, fixed at process start
    creds,          \* AMADEUS_CLIENT_ID and AMADEUS_CLIENT_SECRET both set
    now,            \* wall clock, hours since process start
    lock,           \* _state_lock: NoThread or its holder
    checking,       \* _state["checking"]
    next_check_at,  \* _state["next_check_at"], -1 for None
    check_count,    \* _state["check_count"]
    sse_listeners,  \* _state["sse_listeners"], a list of queue objects
    queue,          \* contents of each queue.Queue(maxsize=20)
    conn,           \* each stream connection: "new", "open", "closed"
    status,         \* STATUS_FILE
    history,        \* HISTORY_FILE
    next_run,       \* schedule job's next_run, -1 before the job exists
    pc,             \* position of each thread
    offers,         \* run_check local `offers`, per thread
    result,         \* _do_check local `result`, per thread
    exc,            \* an exception is propagating out of fc.run_check
    resp,           \* last HTTP response of each request thread
    gate,           \* history: outcome of the thread's current _do_check gate
    cur,            \* history: number of the check the thread is running
    fetched,        \* history: fetcher invocations of the thread's current call
    notified,       \* history: notifier invocations of the thread's current call
    notify_failed,  \* history: every notification channel failed in that call
    at_gate,        \* history: check_count and history length when the
                    \* thread's current call passed the gate
    started,        \* history: checks that passed the gate so far
    completed,      \* history: checks whose finally-phase has run
    fetches,        \* history: fetcher invocations so far
    requests,       \* history: /check requests so far
    sched_runs,     \* history: times the scheduler called _do_check
    invoked_at,     \* history: clock at the scheduler's latest call of _do_check
    emitted,        \* history: every payload handed to _broadcast, in order
    stored,         \* HISTORY_FILE as the process found it at its start
    spc,            \* position of the api_status request thread
    loaded,         \* api_status locals `status` and `history`
    bpc,            \* position of each thread calling _broadcast step by step
    bmsg,           \* _broadcast local `payload`, per caller
    todo,           \* _broadcast: listeners its for loop has still to visit
    bdead,          \* _broadcast local `dead`, per caller
    late,           \* history: subscribers registered after the first event
    shed            \* history: subscribers removed by a _broadcast pass

vars == <<IS_VERCEL, creds, now, lock, checking, next_check_at, check_count,
          sse_listeners, queue, conn, status, history, next_run, pc, offers,
          result, exc, resp, gate, cur, fetched, notified, notify_failed, at_gate,
          started, completed, fetches, requests, sched_runs, invoked_at, emitted,
          stored, spc, loaded, bpc, bmsg, todo, bdead, late, shed>>

state_vars == <<checking, next_check_at, check_count, sse_listeners, queue>>
store_vars == <<status, history>>
config_vars == <<IS_VERCEL, creds, stored>>
poll_vars == <<spc, loaded>>
bcast_vars == <<bpc, bmsg, todo, bdead>>
side_vars == <<poll_vars, bcast_vars>>
local_vars == <<offers, result, exc>>
call_vars == <<gate, cur, fetched, notified, notify_failed, at_gate>>
count_vars == <<started, completed, fetches, requests, sched_runs>>

\* ------------------------------------------------------------ records
\* A status record; `kind` tells which keys the JSON object has:
\* "empty" is {}, "error" has error only, "result" has all keys.  The
\* timestamp key (the wall clock as text, which nothing reads back) is
\* left out of every record.
NoResult ==
    [kind |-> "none", price_sek |-> 0, airlines |-> "",
     is_deal |-> FALSE, all_offers |-> << >>, error |-> "null"]

EmptyStatus == [NoResult EXCEPT !.kind = "empty"]

ErrorStatus(err) == [NoResult EXCEPT !.kind = "error", !.error = err]

NoResponse == [status |-> "none", result |-> NoResult]

\* the locals of api_status before its loads
NoLoaded == [status |-> EmptyStatus, history |-> << >>]

IsResult(r) == r.kind = "result"

Range(s) == {s[i] : i \in 1..Len(s)}

Min(a, b) == IF a <= b THEN a ELSE b


\* ------------------------------------------------------------ quote fetcher
\* What the provider can answer with: the "data" list of the JSON body,
\* each offer with its grandTotal and the carrier code of its segments.
RawResponses ==
    { << >>,
      << [grandTotal |-> 9000, carrier |-> "CA"],
         [grandTotal |-> 7000, carrier |-> "SK"] >>,
      << [grandTotal |-> 8000, carrier |-> "CA"] >>,
      << [grandTotal |-> 9000, carrier |-> "CA"] >> }

\* How one call of search_flights can end.
FetchOutcomes ==
    {[kind |-> "http_error", raw |-> << >>], [kind |-> "exception", raw |-> << >>]}
        \cup {[kind |-> "ok", raw |-> r] : r \in RawResponses}

Offer(o) == [price |-> o.grandTotal, airlines |-> o.carrier]

RECURSIVE InsertByPrice(_, _)
InsertByPrice(o, sorted) ==
    IF sorted = << >> THEN << o >>
    ELSE IF o.price < Head(sorted).price THEN << o >> \o sorted
    ELSE << Head(sorted) >> \o InsertByPrice(o, Tail(sorted))

RECURSIVE SortOffers(_)
\* sorted(offers, key=price): stable, ascending
SortOffers(os) ==
    IF os = << >> THEN << >>
    ELSE LET n == Len(os)
         IN InsertByPrice(os[n], SortOffers(SubSeq(os, 1, n - 1)))

search_flights(raw) == SortOffers([i \in 1..Len(raw) |-> Offer(raw[i])])

\* a threshold that counts the limit itself as a deal
IsDealAtLimit(price) == price <= PRICE_LIMIT

\* is_deal = price < PRICE_LIMIT
IsDeal(price) == price < PRICE_LIMIT

\* the `result` dict run_check builds from the sorted offers
CheckResult(os) ==
    [kind |-> "result", price_sek |-> os[1].price,
     airlines |-> os[1].airlines, is_deal |-> IsDeal(os[1].price),
     all_offers |-> SubSeq(os, 1, Min(TopOffers, Len(os))), error |-> "null"]

HistoryEntry(os) == [price_sek |-> os[1].price, airlines |-> os[1].airlines]

\* ------------------------------------------------------------ event hub
\* The payload string "event: ...\ndata: ...\n\n".  chk (the check that
\* emitted it) and seq (its place in the emission order) are history tags.
CheckingPayload(val, chk, n) ==
    [event |-> "checking", checking |-> val, result |-> NoResult,
     chk |-> chk, seq |-> n]

ResultPayload(res, chk, n) ==
    [event |-> "result", checking |-> FALSE, result |-> res,
     chk |-> chk, seq |-> n]

NoPayload == CheckingPayload(FALSE, 0, 0)

\* a queue that takes one item more than maxsize
IsFullLate(q) == Len(q) > QueueMax

\* put_nowait raises queue.Full: maxsize > 0 and qsize >= maxsize
IsFull(q) == Len(q) >= QueueMax

RECURSIVE PutAll(_, _, _)
\* the put_nowait pass of _broadcast over the listener list
PutAll(listeners, queues, payload) ==
    IF listeners = << >> THEN queues
    ELSE LET q == Head(listeners)
         IN PutAll(Tail(listeners),
                   IF IsFull(queues[q]) THEN queues
                   ELSE [queues EXCEPT ![q] = Append(@, payload)],
                   payload)

\* a pass that forgets the listeners whose queue was full
DeadListenersNone(listeners, queues, payload) == << >>

RECURSIVE DeadListeners(_, _, _)
\* the `dead` list of _broadcast: the listeners whose put_nowait raised Full
DeadListeners(listeners, queues, payload) ==
    IF listeners = << >> THEN << >>
    ELSE LET q == Head(listeners)
         IN IF IsFull(queues[q])
            THEN << q >> \o DeadListeners(Tail(listeners), queues, payload)
            ELSE DeadListeners(Tail(listeners),
                               [queues EXCEPT ![q] = Append(@, payload)],
                               payload)

RECURSIVE RemoveFirst(_, _)
\* list.remove(x): drops the first occurrence
RemoveFirst(list, x) ==
    IF list = << >> THEN << >>
    ELSE IF Head(list) = x THEN Tail(list)
    ELSE << Head(list) >> \o RemoveFirst(Tail(list), x)

RECURSIVE RemoveAll(_, _)
RemoveAll(list, dead) ==
    IF dead = << >> THEN list
    ELSE RemoveAll(RemoveFirst(list, Head(dead)), Tail(dead))

\* _broadcast(event, data), one locked region
Broadcast(payload) ==
    /\ lock = NoThread
    /\ queue' = PutAll(sse_listeners, queue, payload)
    /\ sse_listeners' =
           RemoveAll(sse_listeners, DeadListeners(sse_listeners, queue, payload))
    /\ shed' = shed \cup Range(DeadListeners(sse_listeners, queue, payload))
    /\ emitted' = Append(emitted, payload)

\* ------------------------------------------------------------ initial state
\* a scheduler thread started whatever the deployment
StartupAlways(vercel) == "sl_start"

\* if not IS_VERCEL: threading.Thread(target=_scheduler_loop).start()
Startup(vercel) == IF vercel THEN "off" ELSE "sl_start"

\* the state after import, `found` being the history file on disk
Boot(found) ==
    /\ IS_VERCEL \in BOOLEAN
    /\ creds \in BOOLEAN
    /\ now = 0
    /\ lock = NoThread
    /\ checking = FALSE
    /\ next_check_at = -1
    /\ check_count = 0
    /\ sse_listeners = << >>
    /\ queue = [s \in Subs |-> << >>]
    /\ conn = [s \in Subs |-> "new"]
    /\ status = EmptyStatus
    /\ stored = found
    /\ history = found
    /\ next_run = -1
    /\ pc = [t \in Threads |-> IF t = Sched THEN Startup(IS_VERCEL) ELSE "idle"]
    /\ offers = [t \in Threads |-> << >>]
    /\ result = [t \in Threads |-> NoResult]
    /\ exc = [t \in Threads |-> FALSE]
    /\ resp = [t \in Requests |-> NoResponse]
    /\ gate = [t \in Threads |-> "none"]
    /\ cur = [t \in Threads |-> 0]
    /\ fetched = [t \in Threads |-> 0]
    /\ notified = [t \in Threads |-> 0]
    /\ notify_failed = [t \in Threads |-> FALSE]
    /\ at_gate = [t \in Threads |-> [count |-> 0, hist |-> 0]]
    /\ started = 0
    /\ completed = 0
    /\ fetches = 0
    /\ requests = 0
    /\ sched_runs = 0
    /\ invoked_at = -1
    /\ emitted = << >>
    /\ spc = "idle"
    /\ loaded = NoLoaded
    /\ bpc = [b \in Callers |-> "idle"]
    /\ bmsg = [b \in Callers |-> NoPayload]
    /\ todo = [b \in Callers |-> << >>]
    /\ bdead = [b \in Callers |-> << >>]
    /\ late = {}
    /\ shed = {}

\* a fresh deployment: no history file yet
Init == Boot(<< >>)


\* ------------------------------------------------------------ clock
Tick ==
    /\ now + TickHours <= MaxTime
    /\ now' = now + TickHours
    /\ UNCHANGED <<config_vars, invoked_at, side_vars, late, shed, lock,
                   state_vars, conn, store_vars, next_run, pc, local_vars,
                   resp, call_vars, count_vars, emitted>>

\* ------------------------------------------------------------ _do_check
\* where _do_check returns to
AfterDoCheck(t) == IF t = Sched THEN "sl_ret" ELSE "ac_done"

\* the gate of _do_check, `busy` being what the call reads from checking
DoCheckGateOn(t, busy) ==
    /\ pc[t] = "dc_gate"
    /\ lock = NoThread
    /\ IF busy
       THEN /\ pc' = [pc EXCEPT ![t] = AfterDoCheck(t)]
            /\ gate' = [gate EXCEPT ![t] = "rejected"]
            /\ UNCHANGED <<checking, started, cur, at_gate>>
       ELSE /\ checking' = TRUE
            /\ pc' = [pc EXCEPT ![t] = "dc_bcast_start"]
            /\ gate' = [gate EXCEPT ![t] = "passed"]
            /\ started' = started + 1
            /\ cur' = [cur EXCEPT ![t] = started + 1]
            /\ at_gate' = [at_gate EXCEPT ![t] =
                               [count |-> check_count, hist |-> Len(history)]]
    /\ UNCHANGED <<config_vars, invoked_at, side_vars, late, shed, now, lock,
                   next_check_at, check_count, sse_listeners, queue, conn,
                   store_vars, next_run, local_vars, resp, fetched, notified,
                   notify_failed, completed, fetches, requests, sched_runs,
                   emitted>>

\* a gate that never finds a check running
DoCheckGateBlind(t) == DoCheckGateOn(t, FALSE)

\* with _state_lock: if checking: return; checking = True
DoCheckGate(t) == DoCheckGateOn(t, checking)

\* the checking-started broadcast, after which run_check is entered with
\* the state lock in the hands of `holder`
DoCheckBroadcastStartThen(t, holder) ==
    /\ pc[t] = "dc_bcast_start"
    /\ Broadcast(CheckingPayload(TRUE, cur[t], Len(emitted) + 1))
    /\ pc' = [pc EXCEPT ![t] = "rc_fetch"]
    /\ lock' = holder
    /\ UNCHANGED <<config_vars, invoked_at, side_vars, late, now, checking,
                   next_check_at, check_count, conn, store_vars, next_run,
                   local_vars, resp, call_vars, count_vars>>

\* fc.run_check() called inside a locked region
DoCheckBroadcastStartLocked(t) == DoCheckBroadcastStartThen(t, t)

\* _broadcast("checking", {"checking": True}); the lock is free again
DoCheckBroadcastStart(t) == DoCheckBroadcastStartThen(t, NoThread)

\* run_check up to the end of the try around search_flights
RunCheckFetch(t) ==
    /\ pc[t] = "rc_fetch"
    /\ IF ~creds
       THEN \* credentials missing: log.error, return None
            /\ pc' = [pc EXCEPT ![t] = "dc_count"]
            /\ result' = [result EXCEPT ![t] = NoResult]
            /\ UNCHANGED <<offers, fetched, fetches>>
       ELSE /\ fetched' = [fetched EXCEPT ![t] = @ + 1]
            /\ fetches' = fetches + 1
            /\ \E out \in FetchOutcomes :
                 LET os == search_flights(out.raw)
                 IN /\ offers' = [offers EXCEPT ![t] = os]
                    /\ pc' = [pc EXCEPT ![t] =
                                 IF out.kind = "http_error" THEN "rc_http_error"
                                 ELSE IF out.kind = "exception" THEN "rc_exception"
                                 ELSE IF os = << >> THEN "rc_no_offers"
                                 ELSE "rc_save_history"]
            /\ UNCHANGED result
    /\ UNCHANGED <<config_vars, invoked_at, side_vars, late, shed, now, lock,
                   state_vars, conn, store_vars, next_run, exc, resp, gate,
                   cur, notified, notify_failed, at_gate, started, completed,
                   requests, sched_runs, emitted>>

ErrorText(at) ==
    IF at = "rc_http_error" THEN "API error: 500"
    ELSE IF at = "rc_exception" THEN "timed out"
    ELSE "No direct flights found"

\* a failure exit of run_check leaving `record` in the status file
RunCheckSaveErrorAs(t, record) ==
    /\ pc[t] \in {"rc_http_error", "rc_exception", "rc_no_offers"}
    /\ status' = record
    /\ result' = [result EXCEPT ![t] = NoResult]
    /\ pc' = [pc EXCEPT ![t] = "dc_count"]
    /\ UNCHANGED <<config_vars, invoked_at, side_vars, late, shed, now, lock,
                   state_vars, conn, history, next_run, offers, exc, resp,
                   call_vars, count_vars, emitted>>

\* a failure exit that returns None without save_status
RunCheckSaveErrorUnsaved(t) == RunCheckSaveErrorAs(t, status)

\* the three failure exits of run_check: save_status({"error": ...}); return None
RunCheckSaveError(t) == RunCheckSaveErrorAs(t, ErrorStatus(ErrorText(pc[t])))

\* the entry written after `base`, the list the save starts from
RunCheckSaveHistoryOnto(t, base) ==
    /\ pc[t] = "rc_save_history"
    /\ history' = Append(base, HistoryEntry(offers[t]))
    /\ pc' = [pc EXCEPT ![t] = "rc_save_status"]
    /\ UNCHANGED <<config_vars, invoked_at, side_vars, late, shed, now, lock,
                   state_vars, conn, status, next_run, local_vars, resp,
                   call_vars, count_vars, emitted>>

\* a save that writes the new entry alone
RunCheckSaveHistoryAlone(t) == RunCheckSaveHistoryOnto(t, << >>)

\* save_history(history_entry): load_history(), append, dump
RunCheckSaveHistory(t) == RunCheckSaveHistoryOnto(t, history)

\* save_status(result); without a deal run_check returns result here
RunCheckSaveStatus(t) ==
    /\ pc[t] = "rc_save_status"
    /\ LET res == CheckResult(offers[t])
       IN /\ status' = res
          /\ IF res.is_deal
             THEN /\ pc' = [pc EXCEPT ![t] = "rc_notify"]
                  /\ UNCHANGED result
             ELSE /\ pc' = [pc EXCEPT ![t] = "dc_count"]
                  /\ result' = [result EXCEPT ![t] = res]
    /\ UNCHANGED <<config_vars, invoked_at, side_vars, late, shed, now, lock,
                   state_vars, conn, history, next_run, offers, exc, resp,
                   call_vars, count_vars, emitted>>

\* A write of the result store (save_status, save_history: open, json.load,
\* json.dump) raises.  run_check does not catch it: the exception leaves
\* run_check and reaches the finally of _do_check.
RunCheckStoreRaises(t) ==
    /\ pc[t] \in {"rc_http_error", "rc_exception", "rc_no_offers",
                  "rc_save_history", "rc_save_status"}
    /\ exc' = [exc EXCEPT ![t] = TRUE]
    /\ pc' = [pc EXCEPT ![t] = "dc_finally"]
    /\ UNCHANGED <<config_vars, invoked_at, side_vars, late, shed, now, lock,
                   state_vars, conn, store_vars, next_run, offers, result,
                   resp, call_vars, count_vars, emitted>>

\* The alert of run_check.  desktop: notify-send or the PowerShell toast
\* got through; email: the mail was sent.  With `swallowed` the notifiers
\* keep their failures to themselves and run_check returns result.
RunCheckNotifyWhen(t, swallowed) ==
    /\ pc[t] = "rc_notify"
    /\ notified' = [notified EXCEPT ![t] = @ + 1]
    /\ \E desktop \in BOOLEAN, email \in BOOLEAN :
         /\ notify_failed' = [notify_failed EXCEPT ![t] = ~desktop /\ ~email]
         /\ IF swallowed \/ desktop \/ email
            THEN /\ result' = [result EXCEPT ![t] = CheckResult(offers[t])]
                 /\ pc' = [pc EXCEPT ![t] = "dc_count"]
                 /\ UNCHANGED exc
            ELSE /\ exc' = [exc EXCEPT ![t] = TRUE]
                 /\ pc' = [pc EXCEPT ![t] = "dc_finally"]
                 /\ UNCHANGED result
    /\ UNCHANGED <<config_vars, invoked_at, side_vars, late, shed, now, lock,
                   state_vars, conn, store_vars, next_run, offers, resp, gate,
                   cur, fetched, at_gate, count_vars, emitted>>

\* notifiers without their try/except: a failed delivery raises
RunCheckNotifyRaising(t) == RunCheckNotifyWhen(t, FALSE)

\* desktop_notify(...); email_notify(...); return result
RunCheckNotify(t) == RunCheckNotifyWhen(t, TRUE)

\* run_check returned: the count, then the branch on `truthy`
DoCheckCountThen(t, truthy) ==
    /\ pc[t] = "dc_count"
    /\ lock = NoThread
    /\ check_count' = check_count + 1
    /\ pc' = [pc EXCEPT ![t] = IF truthy THEN "dc_bcast_result" ELSE "dc_finally"]
    /\ UNCHANGED <<config_vars, invoked_at, side_vars, late, shed, now, lock,
                   checking, next_check_at, sse_listeners, queue, conn,
                   store_vars, next_run, local_vars, resp, call_vars,
                   count_vars, emitted>>

\* the result event sent without the `if result:` test
DoCheckCountUntested(t) == DoCheckCountThen(t, TRUE)

\* with _state_lock: check_count += 1; then `if result:`
DoCheckCount(t) == DoCheckCountThen(t, IsResult(result[t]))

\* _broadcast("result", {...})
DoCheckBroadcastResult(t) ==
    /\ pc[t] = "dc_bcast_result"
    /\ Broadcast(ResultPayload(result[t], cur[t], Len(emitted) + 1))
    /\ pc' = [pc EXCEPT ![t] = "dc_finally"]
    /\ UNCHANGED <<config_vars, invoked_at, side_vars, late, now, lock,
                   checking, next_check_at, check_count, conn, store_vars,
                   next_run, local_vars, resp, call_vars, count_vars>>

\* the finally-phase of _do_check, writing `value` to checking
DoCheckFinallyWith(t, value) ==
    /\ pc[t] = "dc_finally"
    /\ lock = NoThread
    /\ checking' = value
    /\ completed' = completed + 1
    /\ pc' = [pc EXCEPT ![t] = "dc_bcast_stop"]
    /\ UNCHANGED <<config_vars, invoked_at, side_vars, late, shed, now, lock,
                   next_check_at, check_count, sse_listeners, queue, conn,
                   store_vars, next_run, local_vars, resp, call_vars, started,
                   fetches, requests, sched_runs, emitted>>

\* the reset written after the try instead of in a finally: skipped when
\* run_check raises
DoCheckFinallySkipped(t) == DoCheckFinallyWith(t, exc[t])

\* finally: with _state_lock: checking = False
DoCheckFinally(t) == DoCheckFinallyWith(t, FALSE)

\* finally: _broadcast("checking", {"checking": False}); then _do_check
\* returns, or the pending exception goes on to the caller: a request
\* thread answers 500, the scheduler thread ends.
DoCheckBroadcastStop(t) ==
    /\ pc[t] = "dc_bcast_stop"
    /\ Broadcast(CheckingPayload(FALSE, cur[t], Len(emitted) + 1))
    /\ pc' = [pc EXCEPT ![t] =
                 IF exc[t] THEN (IF t = Sched THEN "dead" ELSE "idle")
                 ELSE AfterDoCheck(t)]
    /\ resp' = IF exc[t] /\ t # Sched
               THEN [resp EXCEPT ![t] = [status |-> "error_500", result |-> NoResult]]
               ELSE resp
    /\ exc' = [exc EXCEPT ![t] = exc[t] /\ t = Sched]
    /\ offers' = [offers EXCEPT ![t] = << >>]
    /\ result' = [result EXCEPT ![t] = NoResult]
    /\ cur' = [cur EXCEPT ![t] = 0]
    /\ UNCHANGED <<config_vars, invoked_at, side_vars, late, now, lock,
                   checking, next_check_at, check_count, conn, store_vars,
                   next_run, gate, fetched, notified, notify_failed, at_gate,
                   count_vars>>


\* ------------------------------------------------------------ scheduler
\* _scheduler_loop up to the while: next_check_at, then the job is
\* registered with `first` as its next_run
SchedulerStartAt(first) ==
    /\ pc[Sched] = "sl_start"
    /\ lock = NoThread
    /\ next_check_at' = now + CHECK_EVERY_HOURS
    /\ next_run' = first
    /\ pc' = [pc EXCEPT ![Sched] = "sl_loop"]
    /\ UNCHANGED <<config_vars, invoked_at, side_vars, late, shed, now, lock,
                   checking, check_count, sse_listeners, queue, conn,
                   store_vars, local_vars, resp, call_vars, count_vars,
                   emitted>>

\* a job that is due as soon as the loop starts
SchedulerStartNow == SchedulerStartAt(now)

\* schedule.every(n).hours.do(_do_check) sets the job's next_run to
\* now + n hours
SchedulerStart == SchedulerStartAt(now + CHECK_EVERY_HOURS)

\* schedule.run_pending() finds the job due and calls _do_check; when the
\* job is not due the loop sleeps and nothing changes
SchedulerPoll ==
    /\ pc[Sched] = "sl_loop"
    /\ now >= next_run
    /\ requests + sched_runs < MaxTriggers
    /\ sched_runs' = sched_runs + 1
    /\ invoked_at' = now
    /\ pc' = [pc EXCEPT ![Sched] = "dc_gate"]
    /\ gate' = [gate EXCEPT ![Sched] = "none"]
    /\ fetched' = [fetched EXCEPT ![Sched] = 0]
    /\ notified' = [notified EXCEPT ![Sched] = 0]
    /\ notify_failed' = [notify_failed EXCEPT ![Sched] = FALSE]
    /\ UNCHANGED <<config_vars, side_vars, late, shed, now, lock, state_vars,
                   conn, store_vars, next_run, local_vars, resp, cur, at_gate,
                   started, completed, fetches, requests, emitted>>

\* the job returned: schedule sets its next_run to now + n hours
SchedulerReschedule ==
    /\ pc[Sched] = "sl_ret"
    /\ next_run' = now + CHECK_EVERY_HOURS
    /\ pc' = [pc EXCEPT ![Sched] = "sl_loop"]
    /\ UNCHANGED <<config_vars, invoked_at, side_vars, late, shed, now, lock,
                   state_vars, conn, store_vars, local_vars, resp, call_vars,
                   count_vars, emitted>>

\* ------------------------------------------------------------ /api/check
\* with _state_lock: if checking: (stay in the region) else leave it
ApiCheckGate(t) ==
    /\ pc[t] = "idle"
    /\ requests + sched_runs < MaxTriggers
    /\ lock = NoThread
    /\ requests' = requests + 1
    /\ resp' = [resp EXCEPT ![t] = NoResponse]
    /\ gate' = [gate EXCEPT ![t] = "none"]
    /\ fetched' = [fetched EXCEPT ![t] = 0]
    /\ notified' = [notified EXCEPT ![t] = 0]
    /\ notify_failed' = [notify_failed EXCEPT ![t] = FALSE]
    /\ IF checking
       THEN /\ lock' = t
            /\ pc' = [pc EXCEPT ![t] = "ac_busy"]
       ELSE /\ lock' = NoThread
            /\ pc' = [pc EXCEPT ![t] = "dc_gate"]
    /\ UNCHANGED <<config_vars, invoked_at, side_vars, late, shed, now,
                   state_vars, conn, store_vars, next_run, local_vars, cur,
                   at_gate, started, completed, fetches, sched_runs, emitted>>

\* return jsonify({"status": "already_running", "result": fc.load_status()}),
\* still inside the locked region
ApiCheckBusy(t) ==
    /\ pc[t] = "ac_busy"
    /\ lock = t
    /\ resp' = [resp EXCEPT ![t] = [status |-> "already_running", result |-> status]]
    /\ lock' = NoThread
    /\ pc' = [pc EXCEPT ![t] = "idle"]
    /\ UNCHANGED <<config_vars, invoked_at, side_vars, late, shed, now,
                   state_vars, conn, store_vars, next_run, local_vars,
                   call_vars, count_vars, emitted>>

\* _do_check() returned: return jsonify({"status": "done", "result": fc.load_status()})
ApiCheckDone(t) ==
    /\ pc[t] = "ac_done"
    /\ resp' = [resp EXCEPT ![t] = [status |-> "done", result |-> status]]
    /\ pc' = [pc EXCEPT ![t] = "idle"]
    /\ UNCHANGED <<config_vars, invoked_at, side_vars, late, shed, now, lock,
                   state_vars, conn, store_vars, next_run, local_vars,
                   call_vars, count_vars, emitted>>

\* ------------------------------------------------------------ /api/status
\* what api_status leaves alone
orchestration_vars ==
    <<config_vars, invoked_at, bcast_vars, late, shed, now, lock, state_vars,
      conn, store_vars, next_run, pc, local_vars, resp, call_vars, count_vars,
      emitted>>

\* history[-n:]
LastEntries(h, n) == SubSeq(h, Len(h) - Min(n, Len(h)) + 1, Len(h))

\* status = fc.load_status()
ApiStatusLoadStatus ==
    /\ spc = "idle"
    /\ loaded' = [loaded EXCEPT !.status = status]
    /\ spc' = "as_history"
    /\ UNCHANGED orchestration_vars

\* history = fc.load_history()
ApiStatusLoadHistory ==
    /\ spc = "as_history"
    /\ loaded' = [loaded EXCEPT !.history = history]
    /\ spc' = "as_read"
    /\ UNCHANGED orchestration_vars

\* the JSON body api_status returns when its locked region reads the
\* three fields now (the config echo, fixed at import, is left out)
ApiStatusResponse ==
    [current |-> loaded.status,
     history |-> LastEntries(loaded.history, StatusHistory),
     checking |-> checking, next_check_at |-> next_check_at,
     check_count |-> check_count]

\* with _state_lock: the three fields are read; then return jsonify({...})
ApiStatusRespond ==
    /\ spc = "as_read"
    /\ lock = NoThread
    /\ loaded' = NoLoaded
    /\ spc' = "idle"
    /\ UNCHANGED orchestration_vars

\* ------------------------------------------------------------ /stream
\* stream() up to the end of its locked region, the new queue holding
\* `backlog` when it is registered
StreamConnectWith(s, backlog) ==
    /\ conn[s] = "new"
    /\ lock = NoThread
    /\ sse_listeners' = Append(sse_listeners, s)
    /\ queue' = [queue EXCEPT ![s] = backlog]
    /\ conn' = [conn EXCEPT ![s] = "open"]
    /\ late' = IF emitted = << >> THEN late ELSE late \cup {s}
    /\ UNCHANGED <<config_vars, invoked_at, side_vars, shed, now, lock,
                   checking, next_check_at, check_count, store_vars, next_run,
                   pc, local_vars, resp, call_vars, count_vars, emitted>>

\* a hub that replays the latest event to a new subscriber
StreamConnectReplay(s) ==
    StreamConnectWith(s, IF emitted = << >> THEN << >>
                         ELSE << emitted[Len(emitted)] >>)

\* q = queue.Queue(maxsize=20); with _state_lock: sse_listeners.append(q)
StreamConnect(s) == StreamConnectWith(s, << >>)

\* generate(): msg = q.get(timeout=30); yield msg
StreamGet(s) ==
    /\ conn[s] = "open"
    /\ queue[s] # << >>
    /\ queue' = [queue EXCEPT ![s] = Tail(@)]
    /\ UNCHANGED <<config_vars, invoked_at, side_vars, late, shed, now, lock,
                   checking, next_check_at, check_count, sse_listeners, conn,
                   store_vars, next_run, pc, local_vars, resp, call_vars,
                   count_vars, emitted>>

\* the client went away: the generator ends, leaving `remaining` as the
\* listener list; the queue object is then unreachable
StreamDisconnectWith(s, remaining) ==
    /\ conn[s] = "open"
    /\ lock = NoThread
    /\ sse_listeners' = remaining
    /\ conn' = [conn EXCEPT ![s] = "closed"]
    /\ queue' = [queue EXCEPT ![s] = << >>]
    /\ UNCHANGED <<config_vars, invoked_at, side_vars, late, shed, now, lock,
                   checking, next_check_at, check_count, store_vars, next_run,
                   pc, local_vars, resp, call_vars, count_vars, emitted>>

\* a generator that ends without unregistering its queue
StreamDisconnectKeeping(s) == StreamDisconnectWith(s, sse_listeners)

\* GeneratorExit: with _state_lock: sse_listeners.remove(q), ValueError passed
\* over
StreamDisconnect(s) == StreamDisconnectWith(s, RemoveFirst(sse_listeners, s))

\* ------------------------------------------------------------ specifications
NominalNext ==
    \/ Tick
    \/ SchedulerStart
    \/ SchedulerPoll
    \/ SchedulerReschedule
    \/ \E t \in Requests : ApiCheckGate(t)
    \/ \E t \in Requests : ApiCheckBusy(t)
    \/ \E t \in Requests : ApiCheckDone(t)
    \/ \E t \in Threads : DoCheckGate(t)
    \/ \E t \in Threads : DoCheckBroadcastStart(t)
    \/ \E t \in Threads : RunCheckFetch(t)
    \/ \E t \in Threads : RunCheckSaveError(t)
    \/ \E t \in Threads : RunCheckSaveHistory(t)
    \/ \E t \in Threads : RunCheckSaveStatus(t)
    \/ \E t \in Threads : RunCheckNotify(t)
    \/ \E t \in Threads : DoCheckCount(t)
    \/ \E t \in Threads : DoCheckBroadcastResult(t)
    \/ \E t \in Threads : DoCheckFinally(t)
    \/ \E t \in Threads : DoCheckBroadcastStop(t)

Next ==
    \/ NominalNext
    \/ \E t \in Threads : RunCheckStoreRaises(t)

\* The check orchestration: the scheduler thread and the request threads
\* of /api/check, with no /stream client connected.  Every outcome of the
\* collaborators, a raising result store included.
Spec == Init /\ [][Next]_vars

\* The same with a result store that honours its contract: its writes
\* never raise.
NominalSpec == Init /\ [][NominalNext]_vars

\* the entries of earlier checks, oldest first
StoredEntry(i) == [price_sek |-> 10000 + i, airlines |-> "CA"]

StoredHistory == [i \in 1..StoredEntries |-> StoredEntry(i)]

\* a start on a data directory that holds the history of an earlier process
StoredInit == Boot(StoredHistory)

StatusNext ==
    \/ NominalNext
    \/ ApiStatusLoadStatus
    \/ ApiStatusLoadHistory
    \/ ApiStatusRespond

\* NominalSpec with /api/status polled while checks run, started on a
\* history file that already holds entries.
StatusSpec == StoredInit /\ [][StatusNext]_vars

\* a step of thread t inside api_check, _do_check or the scheduler loop,
\* other than accepting a new trigger
Step(t) ==
    \/ t \in Requests /\ (ApiCheckBusy(t) \/ ApiCheckDone(t))
    \/ DoCheckGate(t)
    \/ DoCheckBroadcastStart(t)
    \/ RunCheckFetch(t)
    \/ RunCheckSaveError(t)
    \/ RunCheckSaveHistory(t)
    \/ RunCheckSaveStatus(t)
    \/ RunCheckNotify(t)
    \/ DoCheckCount(t)
    \/ DoCheckBroadcastResult(t)
    \/ DoCheckFinally(t)
    \/ DoCheckBroadcastStop(t)

\* Spec with every thread scheduled and every collaborator call returning:
\* a thread that can take a step eventually takes one.
FairSpec == Spec /\ \A t \in Threads : WF_vars(Step(t))

\* The n-th payload of a run of successful checks, one after the other:
\* checking true, result, checking false, checking true, ...
HubPayload(n) ==
    LET chk == ((n - 1) \div 3) + 1
    IN IF n % 3 = 1 THEN CheckingPayload(TRUE, chk, n)
       ELSE IF n % 3 = 2
            THEN ResultPayload(CheckResult(search_flights(<< [grandTotal |-> 7000,
                                                            carrier |-> "SK"] >>)),
                               chk, n)
       ELSE CheckingPayload(FALSE, chk, n)

\* one _broadcast call by whichever thread runs the check
HubBroadcast ==
    /\ Len(emitted) < MaxBroadcasts
    /\ Broadcast(HubPayload(Len(emitted) + 1))
    /\ UNCHANGED <<config_vars, invoked_at, side_vars, late, now, lock,
                   checking, next_check_at, check_count, conn, store_vars,
                   next_run, pc, local_vars, resp, call_vars, count_vars>>

HubNext ==
    \/ HubBroadcast
    \/ \E s \in Subs : StreamConnect(s)
    \/ \E s \in Subs : StreamGet(s)
    \/ \E s \in Subs : StreamDisconnect(s)

\* The event hub with its /stream clients: _broadcast is called with the
\* payloads of successive checks while clients connect, drain and leave.
HubSpec == Init /\ [][HubNext]_vars


\* ------------------------------------------------------------ _broadcast by statement
\* what a _broadcast call leaves alone
outside_vars ==
    <<config_vars, invoked_at, poll_vars, late, now, checking, next_check_at,
      check_count, conn, store_vars, next_run, pc, local_vars, resp,
      call_vars, count_vars>>

\* caller b enters _broadcast: with `free` it gets past the with
\* statement, leaving the lock to `holder`
BroadcastEnterWhen(b, free, holder) ==
    /\ bpc[b] = "idle"
    /\ Len(emitted) < MaxCalls
    /\ free
    /\ lock' = holder
    /\ bmsg' = [bmsg EXCEPT ![b] = HubPayload(Len(emitted) + 1)]
    /\ emitted' = Append(emitted, HubPayload(Len(emitted) + 1))
    /\ todo' = [todo EXCEPT ![b] = sse_listeners]
    /\ bdead' = [bdead EXCEPT ![b] = << >>]
    /\ bpc' = [bpc EXCEPT ![b] = "b_loop"]
    /\ UNCHANGED <<outside_vars, sse_listeners, queue, shed>>

\* a _broadcast that does not take the state lock
BroadcastEnterUnlocked(b) == BroadcastEnterWhen(b, TRUE, lock)

\* payload = ...; with _state_lock: dead = []
BroadcastEnter(b) == BroadcastEnterWhen(b, lock = NoThread, b)

\* one turn of `for q in sse_listeners`: q.put_nowait(payload), or
\* dead.append(q) on queue.Full
BroadcastPut(b) ==
    /\ bpc[b] = "b_loop"
    /\ todo[b] # << >>
    /\ LET q == Head(todo[b])
       IN IF IsFull(queue[q])
          THEN /\ bdead' = [bdead EXCEPT ![b] = Append(@, q)]
               /\ UNCHANGED queue
          ELSE /\ queue' = [queue EXCEPT ![q] = Append(@, bmsg[b])]
               /\ UNCHANGED bdead
    /\ todo' = [todo EXCEPT ![b] = Tail(@)]
    /\ UNCHANGED <<outside_vars, lock, sse_listeners, shed, emitted, bpc,
                   bmsg>>

\* for q in dead: sse_listeners.remove(q); the with block ends
BroadcastSweep(b) ==
    /\ bpc[b] = "b_loop"
    /\ todo[b] = << >>
    /\ sse_listeners' = RemoveAll(sse_listeners, bdead[b])
    /\ shed' = shed \cup Range(bdead[b])
    /\ lock' = NoThread
    /\ bpc' = [bpc EXCEPT ![b] = "idle"]
    /\ bmsg' = [bmsg EXCEPT ![b] = NoPayload]
    /\ bdead' = [bdead EXCEPT ![b] = << >>]
    /\ UNCHANGED <<outside_vars, queue, emitted, todo>>

LockNext ==
    \/ \E b \in Callers : BroadcastEnter(b)
    \/ \E b \in Callers : BroadcastPut(b)
    \/ \E b \in Callers : BroadcastSweep(b)
    \/ \E s \in Subs : StreamConnect(s)
    \/ \E s \in Subs : StreamGet(s)
    \/ \E s \in Subs : StreamDisconnect(s)

\* The event hub with _broadcast followed statement by statement: two
\* threads call it while /stream clients connect, drain and leave.
LockSpec == Init /\ [][LockNext]_vars

\* ------------------------------------------------------------ shared notions
\* positions inside fc.run_check
RunCheckPcs ==
    {"rc_fetch", "rc_http_error", "rc_exception", "rc_no_offers",
     "rc_save_history", "rc_save_status", "rc_notify"}

\* positions of a _do_check call between passing the gate and its finally
InFlightPcs ==
    {"dc_bcast_start", "dc_count", "dc_bcast_result", "dc_finally"}
        \cup RunCheckPcs

\* thread t's _do_check call finds checking = true at the gate and returns
RejectStep(t) == pc[t] = "dc_gate" /\ checking /\ pc'[t] # "dc_gate"

\* thread t's _do_check call runs its finally-phase
FinallyStep(t) == pc[t] = "dc_finally" /\ pc'[t] = "dc_bcast_stop"

\* places in the emission order of the events of check c
EventsOf(c, kind, val) ==
    {i \in 1..Len(emitted) :
        /\ emitted[i].chk = c
        /\ emitted[i].event = kind
        /\ emitted[i].checking = val}

StartedAt(c) == EventsOf(c, "checking", TRUE)
StoppedAt(c) == EventsOf(c, "checking", FALSE)
ResultAt(c) == EventsOf(c, "result", FALSE)

\* ------------------------------------------------------------ C1
\* C1: at most one _do_check call is inside fc.run_check at any time; a call
\* that finds checking = true returns in that step, leaving checking,
\* check_count, the fetcher, the result store, the queues and the emitted
\* events untouched, and never reaches the fetcher or a broadcast.
C1_SingleFlight ==
    /\ [](Cardinality({t \in Threads : pc[t] \in RunCheckPcs}) <= 1)
    /\ [](\A t \in Threads :
            gate[t] = "rejected" => pc[t] \notin InFlightPcs /\ fetched[t] = 0)
    /\ [][\A t \in Threads :
            RejectStep(t) =>
                /\ pc'[t] = AfterDoCheck(t)
                /\ UNCHANGED <<checking, check_count, fetches, fetched,
                               emitted, queue, sse_listeners, status,
                               history>>]_vars

\* one call is inside run_check while another call has been rejected
C1_Witness ==
    \E t \in Threads, u \in Threads :
        /\ t # u
        /\ pc[t] \in RunCheckPcs
        /\ gate[u] = "rejected"
        /\ checking


\* ------------------------------------------------------------ C2
\* C2: checking is false initially; it is true exactly while some _do_check
\* call is between its gate and its finally-phase; the finally-phase of
\* every call that passed the gate sets it to false, whether run_check
\* returned a result, returned None or raised; and with the threads
\* scheduled and the fetch returning, checking = true leads to
\* checking = false.
C2_NeverStuck ==
    /\ ~checking
    /\ [](checking <=> \E t \in Threads : pc[t] \in InFlightPcs)
    /\ [][\A t \in Threads : FinallyStep(t) => ~checking']_vars
    /\ (checking ~> ~checking)

\* a call in which run_check raised has run its finally-phase
C2_Witness ==
    \E t \in Threads : exc[t] /\ pc[t] = "dc_bcast_stop" /\ ~checking


\* ------------------------------------------------------------ C3
\* C3: of every check that passed the gate, checking-started, result and
\* checking-stopped are each emitted at most once; checking-stopped comes
\* after checking-started; a result event carries what run_check returned,
\* a result with error null, comes after the check's checking-started and
\* before its checking-stopped, and is never emitted for a check whose
\* run_check returned None or raised; a check whose call has returned has
\* emitted both checking events.
C3_EventOrder ==
    /\ \A c \in 1..started :
        /\ Cardinality(StartedAt(c)) <= 1
        /\ Cardinality(StoppedAt(c)) <= 1
        /\ Cardinality(ResultAt(c)) <= 1
        /\ \A i \in StoppedAt(c) : \E j \in StartedAt(c) : j < i
        /\ \A r \in ResultAt(c) :
            /\ \E j \in StartedAt(c) : j < r
            /\ \A i \in StoppedAt(c) : r < i
            /\ IsResult(emitted[r].result)
            /\ emitted[r].result.error = "null"
        /\ (\A t \in Threads : cur[t] # c) =>
               StartedAt(c) # {} /\ StoppedAt(c) # {}
    /\ \A t \in Threads :
        pc[t] \in {"dc_finally", "dc_bcast_stop"} /\ ResultAt(cur[t]) # {} =>
            ~exc[t] /\ fetched[t] = 1 /\ offers[t] # << >>

\* a check has emitted all three of its events
C3_Witness ==
    \E c \in 1..started :
        StartedAt(c) # {} /\ ResultAt(c) # {} /\ StoppedAt(c) # {}


\* ------------------------------------------------------------ C4
\* C4: a /check request whose _do_check call was rejected at the gate
\* answers already_running, and a request answers done only if its own
\* call passed the gate and ran the check.
C4_TruthfulOutcome ==
    \A t \in Requests :
        /\ gate[t] = "rejected" /\ resp[t].status # "none" =>
               resp[t].status = "already_running"
        /\ resp[t].status = "done" => gate[t] = "passed"


\* ------------------------------------------------------------ event hub claims
\* a step that is one _broadcast call, and the payload it was called with
BroadcastStep == Len(emitted') = Len(emitted) + 1
Sent == emitted'[Len(emitted')]

Registered(s) == s \in Range(sse_listeners)

\* ------------------------------------------------------------ C5
\* C5: a _broadcast call appends its payload to the queue of every
\* registered subscriber holding fewer than 20 items; every queue holds the
\* broadcast payloads in the order of the _broadcast calls; no queue ever
\* holds more than 20 items; and a _broadcast call can always complete,
\* however full the queues are.
C5_Delivery ==
    /\ [](\A s \in Subs : Len(queue[s]) <= QueueMax)
    /\ [](\A s \in Subs : \A i \in 1..Len(queue[s]) :
            /\ queue[s][i].seq \in 1..Len(emitted)
            /\ queue[s][i] = emitted[queue[s][i].seq]
            /\ i > 1 => queue[s][i - 1].seq < queue[s][i].seq)
    /\ [](Len(emitted) < MaxBroadcasts => ENABLED HubBroadcast)
    /\ [][BroadcastStep =>
            \A s \in Subs :
                Registered(s) /\ Len(queue[s]) < QueueMax =>
                    queue'[s] = Append(queue[s], Sent)]_vars

\* a registered subscriber's queue is full while another registered
\* subscriber with room has just been handed the latest payload
C5_Witness ==
    \E s \in Subs, u \in Subs :
        /\ Registered(s) /\ Registered(u)
        /\ Len(queue[s]) = QueueMax
        /\ queue[u] # << >>
        /\ Len(queue[u]) < QueueMax
        /\ queue[u][Len(queue[u])].seq = Len(emitted)

\* ------------------------------------------------------------ C6
\* C6: the _broadcast call that finds a registered subscriber's queue full
\* removes that subscriber and puts nothing into its queue, and a removed
\* subscriber is never registered again nor handed a later payload; in the
\* same call every other registered subscriber has room, stays registered
\* and gets the payload.
C6_Shedding ==
    /\ [][BroadcastStep =>
            \A s \in Subs :
                IF Registered(s) /\ Len(queue[s]) >= QueueMax
                THEN s \notin Range(sse_listeners') /\ queue'[s] = queue[s]
                ELSE IF Registered(s)
                THEN s \in Range(sse_listeners') /\ queue'[s] = Append(queue[s], Sent)
                ELSE s \notin Range(sse_listeners') /\ queue'[s] = queue[s]]_vars
    /\ [][\A s \in Subs :
            conn[s] # "new" /\ ~Registered(s) =>
                /\ s \notin Range(sse_listeners')
                /\ Len(queue'[s]) <= Len(queue[s])]_vars

\* a subscriber that never drained was shed with its 20 items, and another
\* subscriber has since received the payload of the shedding call and a later one
C6_Witness ==
    \E s \in Subs, u \in Subs :
        /\ conn[s] = "open" /\ ~Registered(s)
        /\ Len(queue[s]) = QueueMax
        /\ Registered(u)
        /\ queue[u] # << >>
        /\ queue[u][Len(queue[u])].seq > queue[s][QueueMax].seq + 1
        /\ \E i \in 1..Len(queue[u]) : queue[u][i].seq = queue[s][QueueMax].seq + 1


\* ------------------------------------------------------------ C7
\* C7: check_count equals the number of check attempts that have completed,
\* whatever their outcome: whenever no check is in flight it equals the
\* number of calls that passed the gate and ran their finally-phase.
C7_CountsCompleted ==
    (\A t \in Threads : pc[t] \notin InFlightPcs) => check_count = completed

\* ------------------------------------------------------------ C8
\* the call of thread t invoked the fetcher and got no offers out of it:
\* the fetcher raised, the provider answered with an error status, or the
\* offer list was empty
FetchFailed(t) == fetched[t] = 1 /\ offers[t] = << >>

MinPrice(os) ==
    CHOOSE p \in {os[i].price : i \in 1..Len(os)} :
        \A i \in 1..Len(os) : p <= os[i].price

C10_NotifierFailure ==
    [][\A t \in Threads :
        FinallyStep(t) /\ notified[t] = 1 =>
            /\ ~exc'[t]
            /\ status'.kind = "result"
            /\ status'.error = "null"
            /\ Len(history') = at_gate[t].hist + 1
            /\ check_count' = at_gate[t].count + 1
            /\ (ResultAt(cur[t]))' # {}
            /\ ~checking']_vars

\* every delivery failed in a check that then ran to its end as a success
C10_Witness ==
    \E t \in Threads :
        /\ pc[t] = "dc_bcast_stop"
        /\ notify_failed[t]
        /\ notified[t] = 1
        /\ status.error = "null"
        /\ ResultAt(cur[t]) # {}
        /\ ~checking

\* ------------------------------------------------------------ C11
\* positions of a thread inside the Quote Fetcher or the Notifier call
FetchNotifyPcs == {"rc_fetch", "rc_notify"}

\* C11: a thread inside the fetcher or the notifier call never holds the
\* state lock; while a check is in that phase the lock is free, or held by
\* another thread inside a locked region of its own that can end without
\* waiting for the check; and with the lock free a trigger at the gate of
\* _do_check, a broadcast, a subscribe, an unsubscribe and the locked read
\* of api_status can each take their step.
C11_LockFreeInCall ==
    \A t \in Threads :
        pc[t] \in FetchNotifyPcs =>
            /\ lock # t
            /\ lock # NoThread =>
                   /\ lock \in Requests
                   /\ pc[lock] = "ac_busy"
                   /\ ENABLED ApiCheckBusy(lock)
            /\ lock = NoThread =>
                   /\ \A u \in Threads : pc[u] = "dc_gate" => ENABLED DoCheckGate(u)
                   /\ \A u \in Threads :
                          pc[u] = "dc_bcast_stop" => ENABLED DoCheckBroadcastStop(u)
                   /\ \A s \in Subs : conn[s] = "new" => ENABLED StreamConnect(s)
                   /\ \A s \in Subs : conn[s] = "open" => ENABLED StreamDisconnect(s)
                   /\ spc = "as_read" => ENABLED ApiStatusRespond

\* a check is inside the notifier call while another trigger stands at
\* the gate of _do_check, about to be rejected
C11_Witness ==
    \E t \in Threads, u \in Threads :
        /\ t # u
        /\ pc[t] = "rc_notify"
        /\ pc[u] = "dc_gate"
        /\ lock = NoThread
        /\ checking

\* ------------------------------------------------------------ C12
\* positions from which the thread's next statement loads or saves the
\* result store
StoreCallPcs ==
    {"ac_busy", "ac_done", "rc_http_error", "rc_exception", "rc_no_offers",
     "rc_save_history", "rc_save_status"}

\* C12: whoever holds the state lock is only reading or writing the
\* run-state fields: the holder is never at a load or save of the result
\* store, nor inside the fetcher or the notifier.
C12_LockMemoryOnly ==
    \A t \in Threads :
        lock = t => pc[t] \notin StoreCallPcs \cup FetchNotifyPcs

\* ------------------------------------------------------------ C13
\* the scheduler thread calls _do_check
SchedInvokeStep == sched_runs' = sched_runs + 1

\* C13: the scheduler thread calls _do_check only when the job is due, and
\* the job is first due one interval after the scheduler started (the time
\* next_check_at records); by the time of its k-th call at least k
\* intervals have passed since the start; each later due time is at least
\* one interval after the one before; and whenever the loop polls with
\* the job due it calls _do_check, and does not when the job is not due.
C13_SchedulerInterval ==
    /\ [](pc[Sched] \in {"off", "sl_start"} => sched_runs = 0)
    /\ [](pc[Sched] \notin {"off", "sl_start"} =>
            sched_runs * CHECK_EVERY_HOURS <= now - (next_check_at - CHECK_EVERY_HOURS))
    /\ [](pc[Sched] = "sl_loop" /\ requests + sched_runs < MaxTriggers =>
            (ENABLED SchedulerPoll <=> now >= next_run))
    /\ [][SchedInvokeStep => now >= next_run /\ next_run >= next_check_at]_vars
    /\ [][next_run' # next_run =>
            /\ next_run' = now + CHECK_EVERY_HOURS
            /\ pc[Sched] = "sl_start" \/ next_run' >= next_run + CHECK_EVERY_HOURS]_vars

\* the scheduler, started at hour 0, has made its second call at the end
\* of the second interval
C13_Witness ==
    /\ ~IS_VERCEL
    /\ next_check_at = CHECK_EVERY_HOURS
    /\ sched_runs = 2
    /\ now = 2 * CHECK_EVERY_HOURS
    /\ pc[Sched] = "dc_gate"

\* ------------------------------------------------------------ C14
\* positions of the scheduler thread inside the _do_check call of its job
DoCheckPcs == {"dc_gate", "dc_bcast_stop"} \cup InFlightPcs

\* C14: in persistent mode the scheduler thread is always in its loop: it
\* is registering the job, polling, or inside the _do_check call of a due
\* job from which it returns to polling, whatever the outcome of the
\* check, an error raised out of fc.run_check included.
C14_LoopNeverEnds ==
    ~IS_VERCEL => pc[Sched] \in {"sl_start", "sl_loop", "sl_ret"} \cup DoCheckPcs

\* ------------------------------------------------------------ C15
\* request thread t sends the response of its /check request
RespondStep(t) == resp'[t] # resp[t] /\ resp'[t].status # "none"

\* C15: with IS_VERCEL the scheduler thread does not exist and never calls
\* _do_check; the fetcher is invoked only by a request thread inside
\* run_check, at most once per /check request, so fetcher invocations
\* never outnumber /check requests; and a request whose call passed the
\* gate responds only when the finally-phase of its check has run, so
\* that checking, if true by then, belongs to another request's check.
C15_TriggeredMode ==
    /\ [](IS_VERCEL =>
            /\ pc[Sched] = "off"
            /\ sched_runs = 0
            /\ fetched[Sched] = 0
            /\ fetches <= requests
            /\ \A t \in Requests : fetched[t] <= 1)
    /\ [][IS_VERCEL /\ fetches' # fetches =>
            \E t \in Requests :
                /\ pc[t] = "rc_fetch"
                /\ fetched[t] = 0
                /\ fetches' = fetches + 1]_vars
    /\ [][IS_VERCEL =>
            \A t \in Requests :
                RespondStep(t) /\ gate[t] = "passed" =>
                    /\ pc[t] \in {"ac_done", "dc_bcast_stop"}
                    /\ pc'[t] = "idle"
                    /\ checking => \E u \in Requests \ {t} : pc[u] \in InFlightPcs
                    /\ cur'[t] = 0]_vars

\* triggered mode: a request has answered done after its one fetch, and
\* checking is false again
C15_Witness ==
    /\ IS_VERCEL
    /\ \E t \in Requests :
        /\ resp[t].status = "done"
        /\ gate[t] = "passed"
        /\ fetched[t] = 1
        /\ pc[t] = "idle"
    /\ fetches = 1
    /\ ~checking

\* ------------------------------------------------------------ C16
\* C16: no queue holds an event twice; a subscriber registered after the
\* first event never holds that event; a queue gains an item only in a
\* _broadcast call, which appends its own payload, newer than every event
\* emitted before, once, and only to subscribers registered at that
\* moment; registration hands the subscriber an empty queue; and a
\* subscriber that is not registered, removed or not yet connected, gains
\* nothing.
C16_AtMostOnce ==
    /\ [](\A s \in Subs : \A i \in 1..Len(queue[s]), j \in 1..Len(queue[s]) :
            i # j => queue[s][i].seq # queue[s][j].seq)
    /\ [](\A s \in late : \A i \in 1..Len(queue[s]) : queue[s][i].seq > 1)
    /\ [][\A s \in Subs :
            queue'[s] # queue[s] =>
                \/ queue[s] # << >> /\ queue'[s] = Tail(queue[s])
                \/ conn'[s] = "closed" /\ queue'[s] = << >>
                \/ /\ BroadcastStep
                   /\ Registered(s)
                   /\ queue'[s] = Append(queue[s], Sent)]_vars
    /\ [][BroadcastStep =>
            /\ Sent.seq = Len(emitted) + 1
            /\ \A i \in 1..Len(emitted) : emitted[i].seq < Sent.seq]_vars
    /\ [][\A s \in Subs :
            Registered(s)' /\ ~Registered(s) =>
                conn[s] = "new" /\ queue'[s] = << >>]_vars
    /\ [][\A s \in Subs :
            ~Registered(s) /\ queue[s] # << >> =>
                \/ queue'[s] = queue[s]
                \/ queue'[s] = Tail(queue[s])
                \/ queue'[s] = << >>]_vars

\* a subscriber that registered after the first event holds later events
\* only, while a subscriber registered from the start still holds the first
C16_Witness ==
    \E s \in late, u \in Subs \ late :
        /\ Registered(s) /\ Registered(u)
        /\ queue[s] # << >>
        /\ queue[u] # << >>
        /\ queue[u][1].seq = 1
        /\ queue[s][Len(queue[s])].seq = Len(emitted)
        /\ queue[u][Len(queue[u])].seq = Len(emitted)
        /\ Len(queue[u]) > Len(queue[s])

\* ------------------------------------------------------------ C17
\* checks that have appended their entry: those whose result event is out,
\* and those between save_history and the result broadcast
Appended ==
    Cardinality({c \in 1..started : ResultAt(c) # {}})
        + Cardinality({t \in Threads :
              /\ pc[t] \in {"rc_save_status", "rc_notify", "dc_count",
                             "dc_bcast_result"}
              /\ offers[t] # << >>})

DisconnectStep(s) == conn[s] = "open" /\ conn'[s] = "closed"

IsCheckingEvent(e) == e.event = "checking"

\* the checking events in the order _broadcast was called with them
CheckingEvents == SelectSeq(emitted, IsCheckingEvent)

\* no _do_check call stands between a write of checking and the
\* broadcast that follows it
NoBroadcastPending ==
    \A t \in Threads : pc[t] \notin {"dc_bcast_start", "dc_bcast_stop"}

\* C19: the checking events alternate true, false, true, ... in the
\* emission order, beginning with true; and whenever no call stands between
\* its write of checking and the following broadcast, the latest checking
\* event carries the current value of checking.
C19_Alternation ==
    /\ \A i \in 1..Len(CheckingEvents) :
           CheckingEvents[i].checking = (i % 2 = 1)
    /\ NoBroadcastPending =>
           checking = (CheckingEvents # << >>
                         /\ CheckingEvents[Len(CheckingEvents)].checking)

\* ------------------------------------------------------------ C20
\* places of event n in the queue of subscriber s
PlacesOf(s, n) == {i \in 1..Len(queue[s]) : queue[s][i].seq = n}

\* C20: at most one thread is inside the pass of _broadcast, and it holds
\* the state lock; while it is inside, the subscriber set does not
\* change; any two events that two subscribers both hold are in the same
\* order in both queues; a queue holds consecutive events, none missing
\* between two it holds; and once no pass is under way every registered
\* subscriber that holds events holds the latest one.
C20_AtomicBroadcast ==
    /\ [](Cardinality({b \in Callers : bpc[b] # "idle"}) <= 1)
    /\ [](\A b \in Callers : bpc[b] # "idle" => lock = b)
    /\ [][(\E b \in Callers : bpc[b] # "idle" /\ bpc'[b] # "idle") =>
            sse_listeners' = sse_listeners]_vars
    /\ [](\A s \in Subs, u \in Subs :
            \A n \in 1..Len(emitted), m \in 1..Len(emitted) :
                \A i \in PlacesOf(s, n), j \in PlacesOf(s, m),
                   k \in PlacesOf(u, n), l \in PlacesOf(u, m) :
                    i < j => k < l)
    /\ [](\A s \in Subs : \A i \in 1..Len(queue[s]) - 1 :
            queue[s][i + 1].seq = queue[s][i].seq + 1)
    /\ []((\A b \in Callers : bpc[b] = "idle") =>
            \A s \in Subs :
                Registered(s) /\ queue[s] # << >> =>
                    queue[s][Len(queue[s])].seq = Len(emitted))

\* a pass is half way: one subscriber holds the latest event, the other
\* is about to get it, and both hold the event before
C20_Witness ==
    \E b \in Callers, s \in Subs, u \in Subs :
        /\ bpc[b] = "b_loop"
        /\ todo[b] = << u >>
        /\ s # u
        /\ Len(emitted) >= 2
        /\ PlacesOf(s, Len(emitted)) # {}
        /\ PlacesOf(s, Len(emitted) - 1) # {}
        /\ PlacesOf(u, Len(emitted)) = {}
        /\ PlacesOf(u, Len(emitted) - 1) # {}

\* ------------------------------------------------------------ C21
\* C21: in triggered mode next_check_at stays unset; in persistent mode
\* nothing writes it before the scheduler does, until the first scheduled
\* check it is the time that check is due (scheduler start plus one
\* interval), and once the scheduler is back in its loop after a call of
\* _do_check that ran a check, next_check_at is later than the time of
\* that call.
C21_NextCheckUpcoming ==
    /\ IS_VERCEL => next_check_at = -1
    /\ pc[Sched] \in {"off", "sl_start"} => next_check_at = -1
    /\ pc[Sched] \notin {"off", "sl_start"} /\ sched_runs = 0 =>
           /\ next_check_at = next_run
           /\ next_check_at >= CHECK_EVERY_HOURS
    /\ pc[Sched] = "sl_loop" /\ sched_runs >= 1 /\ gate[Sched] = "passed" =>
           next_check_at > invoked_at

====
